---- MODULE Spec2Model ----
(***************************************************************************)
(* Nextstrain metadata explorer: the two Bokeh applications of the         *)
(* repository.                                                             *)
(*                                                                         *)
(*   metadata-explorer.py  loads are deferred to next-tick callbacks, a    *)
(*                         loading text is shown, get_metadata is cached   *)
(*                         (specification Spec);                           *)
(*   bokeh-server.py       the same pipeline, run synchronously inside     *)
(*                         the widget callbacks (specification SpecServer).*)
(*                                                                         *)
(* A DataFrame is a record [columns, rows]; a row is the tuple of its      *)
(* cells, in column order; a cell is a pair <<dtype, text>>.  DataFrames   *)
(* are mutable Python objects: the heap maps object ids to their current   *)
(* value, and the cache, the selector's callback closure and the pending   *)
(* callbacks hold ids.                                                     *)
(***************************************************************************)
EXTENDS Integers, Sequences, FiniteSets, TLC

VARIABLES
    tsv,             \* bokeh-server.py: the TSV the user's file and datasets hold
    file_input,      \* the FileInput's value
    dataset_selector,\* the dataset Select's value
    heap,            \* object id -> DataFrame value
    summary,         \* the Div named SUMMARY_NAME
    column_selector, \* the Select named COLUMN_SELECTOR_LAYOUT_NAME
    plot,            \* the figure named BAR_PLOT_NAME
    loading,         \* the Div named LOADING_NAME
    cache,           \* get_metadata's TTLCache: key -> [value, expires]
    tick_callbacks,  \* curdoc()'s pending next-tick callbacks, in order
    clock,           \* the TTLCache timer, in seconds
    n_events,        \* loads and column selections so far (at most MaxEvents)
    fetched,         \* history: per source, the last call that ran read_csv
    last_call,       \* history: the last get_metadata call
    last_load,       \* history: the last load whose work ran
    failed,          \* history: the step just taken was a deferred unit in
                     \* which an exception was raised
    returned         \* history: what validate_and_summarize last returned

vars == <<tsv, file_input, dataset_selector, heap, summary, column_selector, plot, loading, cache,
          tick_callbacks, clock, n_events, fetched, last_call, last_load, failed,
          returned>>

---------------------------------------------------------------------------
(* Bounds of the model. *)

MaxEvents == 3
MaxDistinct == 21
MaxTail == 2

---------------------------------------------------------------------------
(* Program constants. *)

CATEGORY_LIMIT == 19
DEFAULT_SELECTION == ""
maxsize == 1024
ttl == 24 * 60 * 60

\* bokeh.palettes.Category20 is a dict keyed by the palette sizes 3..20.
Category20 == 3 .. 20

---------------------------------------------------------------------------
(* Cells and columns. *)

StrCell(s) == <<"str", s>>
IntCell(s) == <<"int", s>>      \* an int64 cell, written as its decimal text
NaN == <<"nan", "">>            \* a missing value

\* s as a list: the same sequence, its elements evaluated once
List(s) == s \o <<>>

Range(s) == {s[i] : i \in 1 .. Len(s)}
Count(s, x) == Cardinality({i \in 1 .. Len(s) : s[i] = x})

\* Series.astype(str)
astype_str(cell) ==
    CASE cell[1] = "int" -> StrCell(cell[2])
      [] cell[1] = "nan" -> StrCell("nan")
      [] OTHER -> cell

\* Series.unique(): the distinct values in order of first appearance
unique(s) ==
    LET first == SelectSeq([i \in 1 .. Len(s) |-> i],
                           LAMBDA i : \A j \in 1 .. i - 1 : s[j] # s[i])
    IN  List([k \in 1 .. Len(first) |-> s[first[k]]])

\* Series.nunique(): the number of distinct values, missing ones not counted
nunique(s) == Cardinality(Range(s) \ {NaN})

HasColumn(metadata, col) == col \in Range(metadata.columns)
ColumnIndex(metadata, col) ==
    CHOOSE j \in 1 .. Len(metadata.columns) : metadata.columns[j] = col

\* metadata[col]
Column(metadata, col) ==
    LET j == ColumnIndex(metadata, col)
    IN  List([i \in 1 .. Len(metadata.rows) |-> metadata.rows[i][j]])

\* metadata[col] = values: the column is replaced, or appended when new
SetColumn(metadata, col, values) ==
    IF HasColumn(metadata, col)
    THEN LET j == ColumnIndex(metadata, col)
         IN  [columns |-> metadata.columns,
              rows |-> List([i \in 1 .. Len(metadata.rows) |->
                               [metadata.rows[i] EXCEPT ![j] = values[i]]])]
    ELSE [columns |-> Append(metadata.columns, col),
          rows |-> List([i \in 1 .. Len(metadata.rows) |->
                           Append(metadata.rows[i], values[i])])]

NoFrame == [columns |-> <<>>, rows |-> <<>>]

---------------------------------------------------------------------------
(* Dates: pd.to_datetime(errors='coerce'), strftime and strptime. *)

NaT == <<0, 0, 0>>

\* The date texts of the model and the timestamps pandas parses them to;
\* every other text (and a missing value) is coerced to NaT.
Calendar ==
    ("2020-12-31" :> <<2020, 12, 31>>) @@ ("2021-01-05" :> <<2021, 1, 5>>) @@
    ("2021-01-20" :> <<2021, 1, 20>>) @@ ("2021-02-10" :> <<2021, 2, 10>>) @@
    ("2021-02-15" :> <<2021, 2, 15>>) @@ ("2021-03-01" :> <<2021, 3, 1>>) @@
    ("2021-10-07" :> <<2021, 10, 7>>)

to_datetime(cell) ==
    IF cell[1] = "str" /\ cell[2] \in DOMAIN Calendar THEN Calendar[cell[2]] ELSE NaT

\* strftime("%Y-%m"): four-digit year, two-digit month
strftime(dt) ==
    ToString(dt[1]) \o "-" \o (IF dt[2] < 10 THEN "0" ELSE "") \o ToString(dt[2])

FirstOfMonth == {<<y, m, 1>> : y \in 2019 .. 2022, m \in 1 .. 12}

\* datetime.strptime(month, "%Y-%m"): the first day of the month written
strptime(month) == CHOOSE dt \in FirstOfMonth : strftime(dt) = month

\* datetime's order
Before(a, b) ==
    \/ a[1] < b[1]
    \/ a[1] = b[1] /\ a[2] < b[2]
    \/ a[1] = b[1] /\ a[2] = b[2] /\ a[3] < b[3]

\* Series.dt.strftime("%Y-%m") of one cell of pd.to_datetime(metadata['date'])
date_month(cell) ==
    LET dt == to_datetime(cell)
    IN  IF dt = NaT THEN NaN ELSE StrCell(strftime(dt))

\* A variant that leaves the months in their order of first appearance.
sort_months_unsorted(months) == months

sort_months(months) ==
    LET datetime_objects == List([i \in 1 .. Len(months) |-> strptime(months[i])])
        sorted_datetime_objects == SortSeq(datetime_objects, Before)
    IN  List([i \in 1 .. Len(months) |-> strftime(sorted_datetime_objects[i])])

\* sort_months(metadata['date_month'].unique().tolist())
Months(metadata) ==
    LET cells == unique(Column(metadata, "date_month"))
    IN  sort_months(List([i \in 1 .. Len(cells) |-> cells[i][2]]))

---------------------------------------------------------------------------
(* validate_and_summarize *)

NoSummary == [text |-> "", n_rows |-> 0, missing_dates_warning |-> <<>>]

\* A variant that counts the rows after the rows without a date are dropped.
validate_and_summarize_counts_late(metadata) ==
    IF ~ HasColumn(metadata, "date")
    THEN [raised |-> TRUE, error |-> "Metadata must have a date column.",
          metadata |-> NoFrame, summary |-> NoSummary]
    ELSE LET date == Column(metadata, "date")
             dated == SetColumn(metadata, "date_month",
                         List([i \in 1 .. Len(date) |-> date_month(date[i])]))
             j == ColumnIndex(dated, "date_month")
             valid == [columns |-> dated.columns,
                       rows |-> SelectSeq(dated.rows, LAMBDA r : r[j] # NaN)]
             n_rows == Len(valid.rows)
         IN  [raised |-> FALSE, error |-> "",
              metadata |-> valid,
              summary |-> [text |-> "Metadata has {n_rows} rows. {missing_dates_warning}",
                           n_rows |-> n_rows,
                           missing_dates_warning |-> <<>>]]

\* The returned record holds what the call does: whether it raised, the
\* DataFrame it returns and the text it puts in the summary Div.  The
\* warning is <<>> for "" and <<n>> for "n were dropped due to ...".
validate_and_summarize(metadata) ==
    IF ~ HasColumn(metadata, "date")
    THEN [raised |-> TRUE, error |-> "Metadata must have a date column.",
          metadata |-> NoFrame, summary |-> NoSummary]
    ELSE LET n_rows == Len(metadata.rows)
             date == Column(metadata, "date")
             dated == SetColumn(metadata, "date_month",
                         List([i \in 1 .. n_rows |-> date_month(date[i])]))
             j == ColumnIndex(dated, "date_month")
             valid == [columns |-> dated.columns,
                       rows |-> SelectSeq(dated.rows, LAMBDA r : r[j] # NaN)]
             n_valid_rows == Len(valid.rows)
             missing_dates_warning ==
                 IF n_rows - n_valid_rows > 0 THEN <<n_rows - n_valid_rows>> ELSE <<>>
         IN  [raised |-> FALSE, error |-> "",
              metadata |-> valid,
              summary |-> [text |-> "Metadata has {n_rows} rows. {missing_dates_warning}",
                           n_rows |-> n_rows,
                           missing_dates_warning |-> missing_dates_warning]]

---------------------------------------------------------------------------
(* plot_per_month and plot_stacked_per_month: the figures they build. *)

NoFigure == [kind |-> "empty", x_range |-> <<>>, top |-> <<>>,
             stackers |-> <<>>, data |-> <<>>, column |-> ""]

\* The body of plot_per_month: the vbar figure put in place of the plot.
per_month_figure(metadata) ==
    LET months == Months(metadata)
        col == Column(metadata, "date_month")
        counts == List([i \in 1 .. Len(months) |-> Count(col, StrCell(months[i]))])
    IN  [kind |-> "bar", x_range |-> months, top |-> counts,
         stackers |-> <<>>, data |-> <<>>, column |-> ""]

\* The subsets of S with n elements
RECURSIVE KSubsets(_, _)
KSubsets(S, n) ==
    IF n = 0 THEN {{}}
    ELSE IF Cardinality(S) < n THEN {}
    ELSE LET x == CHOOSE y \in S : TRUE
         IN  {T \cup {x} : T \in KSubsets(S \ {x}, n - 1)} \cup KSubsets(S \ {x}, n)

\* set(value_counts(sort=True, ascending=False).index[:limit]) of a column of
\* strings.  pandas leaves the order of equally frequent values open, so
\* every set the descending order allows is a possible outcome.
top_values(values, limit) ==
    LET vals == Range(values)
        freq(v) == Count(values, v)
    IN  IF Cardinality(vals) <= limit THEN {vals}
        ELSE LET cut == CHOOSE c \in {freq(v) : v \in vals} :
                            /\ Cardinality({v \in vals : freq(v) >= c}) >= limit
                            /\ Cardinality({v \in vals : freq(v) > c}) < limit
                 sure == {v \in vals : freq(v) > cut}
                 tied == {v \in vals : freq(v) = cut}
             IN  {sure \cup T : T \in KSubsets(tied, limit - Cardinality(sure))}

\* A variant that keeps every value as its own label.
category_adj_keep_all(v, top_column_values) == v

\* metadata[column].apply(lambda v: v if v in top_column_values else 'other')
category_adj(v, top_column_values) ==
    IF v \in top_column_values THEN v ELSE StrCell("other")

\* A variant that counts the rows of the category in every month.
query_len_any_month(metadata, category, month) ==
    Count(Column(metadata, "category_adj"), StrCell(category))

\* len(metadata.query("category_adj == category & date_month == month"))
query_len(metadata, category, month) ==
    LET c == ColumnIndex(metadata, "category_adj")
        m == ColumnIndex(metadata, "date_month")
    IN  Cardinality({i \in 1 .. Len(metadata.rows) :
                        /\ metadata.rows[i][c] = StrCell(category)
                        /\ metadata.rows[i][m] = StrCell(month)})

\* The DataFrame after lines 202-204: the column as strings and the
\* category_adj column, for one outcome top_column_values of the ranking.
with_category_adj(metadata, column, top_column_values) ==
    LET values == Column(metadata, column)
        strings == List([i \in 1 .. Len(values) |-> astype_str(values[i])])
        as_str == SetColumn(metadata, column, strings)
    IN  SetColumn(as_str, "category_adj",
            List([i \in 1 .. Len(strings) |-> category_adj(strings[i], top_column_values)]))

\* The dict data: 'time' first, then one entry per category; a category
\* named 'time' overwrites the first entry.
stack_data(metadata, months, column_values) ==
    [k \in {"time"} \cup Range(column_values) |->
        IF k \in Range(column_values)
        THEN List([i \in 1 .. Len(months) |-> query_len(metadata, k, months[i])])
        ELSE months]

\* The body of plot_stacked_per_month for one outcome of the ranking:
\* whether it raised, the DataFrame as it leaves it, and the figure.
stacked_figure(metadata, column, top_column_values) ==
    IF ~ HasColumn(metadata, column)
    THEN [raised |-> TRUE, metadata |-> metadata, figure |-> NoFigure]
    ELSE LET months == Months(metadata)
             adj == with_category_adj(metadata, column, top_column_values)
             cells == unique(Column(adj, "category_adj"))
             column_values == List([i \in 1 .. Len(cells) |-> cells[i][2]])
         IN  IF Len(column_values) \notin Category20
             THEN [raised |-> TRUE, metadata |-> adj, figure |-> NoFigure]
             ELSE [raised |-> FALSE, metadata |-> adj,
                   figure |-> [kind |-> "stack", x_range |-> months, top |-> <<>>,
                               stackers |-> column_values,
                               data |-> stack_data(adj, months, column_values),
                               column |-> column]]

\* The outcomes of the ranking at line 203 (none to choose when the column
\* lookup at line 202 raises).
top_column_values_of(metadata, column) ==
    IF ~ HasColumn(metadata, column) THEN {{}}
    ELSE LET values == Column(metadata, column)
         IN  top_values(List([i \in 1 .. Len(values) |-> astype_str(values[i])]),
                        CATEGORY_LIMIT)

---------------------------------------------------------------------------
(* pd.read_csv and the files of the model. *)

\* A file is [parses, frame]: whether pd.read_csv can fetch and parse it,
\* and the DataFrame it then yields.
Unreadable == [parses |-> FALSE, frame |-> NoFrame]
File(frame) == [parses |-> TRUE, frame |-> frame]

read_csv(file) ==
    IF file.parses THEN [raised |-> FALSE, error |-> "", frame |-> file.frame]
    ELSE [raised |-> TRUE, error |-> "read_csv failed", frame |-> NoFrame]

Table(cols, rows) == [columns |-> cols, rows |-> rows]

\* Input tables of bokeh-server.py: k categories "v1" .. "vk" of column c,
\* all but the last three of them occurring twice, over dates that are not
\* in chronological order, followed by the rows of tail.
BaseDates == <<"2021-03-01", "2020-12-31", "2021-10-07">>
BaseDate(i) == StrCell(BaseDates[(i % Len(BaseDates)) + 1])
Category(i) == StrCell("v" \o ToString(i))
Twice(k) == IF k > 3 THEN k - 3 ELSE 0
BaseRows(k) ==
    List([i \in 1 .. k + Twice(k) |->
            IF i <= k THEN <<BaseDate(i), Category(i)>>
            ELSE <<BaseDate(i + 1), Category(i - k)>>])

\* The rows a tail is drawn from, each at most once and in this order: a
\* valid and an unparseable date, with a category of the base, the literal
\* "other" or a missing value.
TailRows ==
    << <<StrCell("2021-02-10"), StrCell("v1")>>,
       <<StrCell("2021-XX-XX"), StrCell("other")>>,
       <<StrCell("2021-02-10"), NaN>>,
       <<NaN, StrCell("v1")>>,
       <<StrCell("2021-02-10"), StrCell("other")>>,
       <<StrCell("2021-XX-XX"), NaN>> >>
Tails ==
    {List([i \in 1 .. Len(t) |-> TailRows[t[i]]]) :
        t \in UNION {{u \in [1 .. n -> 1 .. Len(TailRows)] :
                        \A i \in 1 .. n - 1 : u[i] < u[i + 1]} : n \in 0 .. MaxTail}}

\* The numbers of base categories: none, and those around CATEGORY_LIMIT.
Distinct == {0} \cup (CATEGORY_LIMIT - 1 .. MaxDistinct)

Inputs ==
    {File(Table(<<"date", "c">>, BaseRows(k) \o tail)) : k \in Distinct, tail \in Tails}
    \cup {File(Table(<<"c">>, List([i \in 1 .. k |-> <<Category(i)>>]))) : k \in {0, 3}}
    \cup {Unreadable}

\* The sources of metadata-explorer.py.
TableA == Table(<<"date", "n">>,
              << <<StrCell("2021-02-10"), IntCell("1")>>,
                 <<StrCell("2021-01-05"), IntCell("2")>>,
                 <<StrCell("2021-01-05"), IntCell("3")>>,
                 <<StrCell("2021-XX-XX"), IntCell("1")>> >>)
TableB == Table(<<"date", "region">>,
              << <<StrCell("2021-01-20"), StrCell("x")>>,
                 <<StrCell("2020-12-31"), StrCell("y")>>,
                 <<StrCell("2021-01-20"), StrCell("z")>>,
                 <<StrCell("2021-01-20"), NaN>> >>)
TableC == Table(<<"n">>, << <<IntCell("1")>>, <<IntCell("2")>> >>)

DropdownUrls == {"u1", "u2"}     \* stand for the URLs of REMOTE_DATASETS
CustomUrls == {"u3"}             \* what the user may type
Uploads == {"b1", "b2"}          \* the base64 contents a user may upload
UnknownColumn == "nosuch"

World(name) ==
    CASE name = "u1" -> File(TableA)
      [] name = "u2" -> File(TableB)
      [] name = "u3" -> File(TableC)
      [] name = "b1" -> File(TableB)
      [] OTHER -> Unreadable

---------------------------------------------------------------------------
(* The column selector. *)

NoSelector == [options |-> <<>>, metadata |-> 0, value |-> "", disabled |-> TRUE]

\* [(col, metadata[col].nunique()) for col in metadata], each with its
\* position among the columns
unique_value_counts(metadata) ==
    List([i \in 1 .. Len(metadata.columns) |->
            <<metadata.columns[i], nunique(Column(metadata, metadata.columns[i])), i>>])

\* sorted(unique_value_counts, key=lambda x: x[1]), as the options (col,
\* count) of the selector; sorted() is stable: columns with equal counts
\* stay in column order
sorted_counts(counts) ==
    LET sorted == SortSeq(counts,
                          LAMBDA a, b : a[2] < b[2] \/ (a[2] = b[2] /\ a[3] < b[3]))
    IN  List([i \in 1 .. Len(sorted) |-> <<sorted[i][1], ToString(sorted[i][2])>>])

OptionColumns(selector) == {selector.options[i][1] : i \in 1 .. Len(selector.options)}

---------------------------------------------------------------------------
(* History variables' initial values. *)

NoCall == [source |-> "", key |-> "", ran |-> FALSE, within |-> FALSE,
           first |-> NoFrame, result |-> NoFrame]
NoLoad == [source |-> "", ok |-> FALSE]
NoText == <<"", "">>

InitCommon ==
    /\ file_input = ""
    /\ dataset_selector = ""
    /\ heap = <<>>
    /\ summary = NoSummary
    /\ column_selector = NoSelector
    /\ plot = NoFigure
    /\ loading = NoText
    /\ cache = <<>>
    /\ tick_callbacks = <<>>
    /\ clock = 0
    /\ n_events = 0
    /\ fetched = <<>>
    /\ last_call = NoCall
    /\ failed = FALSE
    /\ last_load = NoLoad
    /\ returned = NoFrame

---------------------------------------------------------------------------
(* bokeh-server.py *)

keep_server(n) == 2 <= n /\ n <= 100

\* process_tsv, called by both load handlers with what the widget names.
process_tsv(file) ==
    LET r == read_csv(file)
        v == validate_and_summarize(r.frame)
    IN  IF r.raised \/ v.raised
        THEN UNCHANGED <<heap, summary, column_selector, plot, returned>>
        ELSE /\ summary' = v.summary
             /\ heap' = <<v.metadata>>
             /\ plot' = per_month_figure(v.metadata)
             /\ column_selector' = [options |->
                                        sorted_counts(
                                            SelectSeq(unique_value_counts(v.metadata),
                                                      LAMBDA x : keep_server(x[2]))),
                                    metadata |-> 1, value |-> "", disabled |-> FALSE]
             /\ returned' = v.metadata

server_unchanged == UNCHANGED <<tsv, dataset_selector, loading, cache, tick_callbacks,
                                clock, n_events, fetched, last_call, last_load, failed>>

\* on_change('value'): the handler runs when the widget's value changes.
\* The user has one local file; every dataset of the dropdown holds the
\* same TSV, so picking another one loads it again.
load_local_file ==
    /\ file_input # "tsv"
    /\ file_input' = "tsv"
    /\ process_tsv(tsv)
    /\ server_unchanged

load_remote_file_server ==
    /\ process_tsv(tsv)
    /\ UNCHANGED file_input
    /\ server_unchanged

\* column_selector_callback of process_tsv: plot_stacked_per_month, run in
\* the callback itself.
column_selector_callback_server ==
    /\ ~ column_selector.disabled
    /\ \E column \in OptionColumns(column_selector) :
         /\ column # column_selector.value
         /\ \E top \in top_column_values_of(heap[1], column) :
              LET r == stacked_figure(heap[1], column, top)
              IN  /\ heap' = <<r.metadata>>
                  /\ plot' = IF r.raised THEN plot ELSE r.figure
                  /\ column_selector' = [column_selector EXCEPT !.value = column]
    /\ UNCHANGED <<summary, returned, file_input>>
    /\ server_unchanged

InitServer ==
    /\ tsv \in Inputs
    /\ InitCommon

NextServer ==
    \/ load_local_file
    \/ load_remote_file_server
    \/ column_selector_callback_server

SpecServer == InitServer /\ [][NextServer]_vars

---------------------------------------------------------------------------
(* metadata-explorer.py: the loading text, the cache, the callbacks. *)

LoadingLocal == <<"Loading local file...", "">>
LoadingUrl(url) == <<"Loading {url}...", url>>
Loading == <<"Loading...", "">>
Loaded == <<"Successfully loaded.", "">>
Failed(e) == <<"Failed to load: {e}", e>>

\* The cache keys: a URL is hashed by its text, an io.BytesIO object by its
\* identity.
UrlKey(url) == [kind |-> "str", name |-> url, id |-> 0]
BytesIOKey(id) == [kind |-> "BytesIO", name |-> "", id |-> id]

\* TTLCache.__getitem__: an entry is there until its time to live is over
cache_hit(key) == key \in DOMAIN cache /\ clock < cache[key].expires

\* TTLCache.__setitem__: expired entries are removed, then the entry that
\* expires first when the cache is full, then the new entry is stored
cache_set(key, value) ==
    LET live == {k \in DOMAIN cache : clock < cache[k].expires} \ {key}
        oldest == CHOOSE k \in live : \A l \in live : cache[k].expires <= cache[l].expires
        kept == IF Cardinality(live) >= maxsize THEN live \ {oldest} ELSE live
    IN  [k \in kept \cup {key} |->
            IF k = key THEN [value |-> value, expires |-> clock + ttl] ELSE cache[k]]

\* A variant in which validate_and_summarize clears the summary before it
\* looks for the date column.
get_metadata_clears_summary(key, source) ==
    IF cache_hit(key)
    THEN [raised |-> FALSE, error |-> "", ran |-> FALSE, id |-> cache[key].value,
          heap |-> heap, cache |-> cache, summary |-> summary]
    ELSE LET r == read_csv(World(source))
             v == validate_and_summarize(r.frame)
             id == Len(heap) + 1
         IN  IF r.raised \/ v.raised
             THEN [raised |-> TRUE, error |-> IF r.raised THEN r.error ELSE v.error,
                   ran |-> TRUE, id |-> 0,
                   heap |-> heap, cache |-> cache,
                   summary |-> IF r.raised THEN summary ELSE NoSummary]
             ELSE [raised |-> FALSE, error |-> "", ran |-> TRUE, id |-> id,
                   heap |-> Append(heap, v.metadata),
                   cache |-> cache_set(key, id), summary |-> v.summary]

\* get_metadata(read_csv_input), with the cache around it: whether it
\* raised, whether read_csv and validate_and_summarize ran, the id of the
\* DataFrame it returns, and the heap, cache and summary it leaves.
get_metadata(key, source) ==
    IF cache_hit(key)
    THEN [raised |-> FALSE, error |-> "", ran |-> FALSE, id |-> cache[key].value,
          heap |-> heap, cache |-> cache, summary |-> summary]
    ELSE LET r == read_csv(World(source))
             v == validate_and_summarize(r.frame)
             id == Len(heap) + 1
         IN  IF r.raised \/ v.raised
             THEN [raised |-> TRUE, error |-> IF r.raised THEN r.error ELSE v.error,
                   ran |-> TRUE, id |-> 0,
                   heap |-> heap, cache |-> cache, summary |-> summary]
             ELSE [raised |-> FALSE, error |-> "", ran |-> TRUE, id |-> id,
                   heap |-> Append(heap, v.metadata),
                   cache |-> cache_set(key, id), summary |-> v.summary]

keep_explorer(n) == n >= 3

Job(kind, source, metadata, column) ==
    [kind |-> kind, source |-> source, metadata |-> metadata, column |-> column]

explorer_unchanged == UNCHANGED <<tsv, returned>>

\* The work() closures of local_file_changed and load_remote_file: the
\* first job of the queue runs initial_load(read_csv_input) inside try.
load_work(key, source) ==
    LET g == get_metadata(key, source)
        result == IF g.raised THEN NoFrame ELSE g.heap[g.id]
        known == source \in DOMAIN fetched
    IN  /\ heap' = g.heap
        /\ cache' = g.cache
        /\ summary' = g.summary
        /\ IF g.raised
           THEN /\ loading' = Failed(g.error)
                /\ tick_callbacks' = Tail(tick_callbacks)
                /\ UNCHANGED column_selector
           ELSE /\ tick_callbacks' = Append(Tail(tick_callbacks),
                                            Job("plot_per_month", "", g.id, ""))
                /\ column_selector' =
                       [options |-> <<<<DEFAULT_SELECTION, "">>>>
                                        \o sorted_counts(
                                               SelectSeq(unique_value_counts(result),
                                                         LAMBDA x : keep_explorer(x[2]))),
                        metadata |-> g.id, value |-> "", disabled |-> FALSE]
                /\ loading' = Loaded
        /\ fetched' = IF g.ran /\ ~ g.raised
                      THEN (source :> [result |-> result, at |-> clock]) @@ fetched
                      ELSE fetched
        /\ last_call' = [source |-> source, key |-> key.kind, ran |-> g.ran,
                         within |-> known /\ clock < fetched[source].at + ttl,
                         first |-> IF known THEN fetched[source].result ELSE NoFrame,
                         result |-> result]
        /\ last_load' = [source |-> source, ok |-> ~ g.raised]
        /\ failed' = g.raised
        /\ UNCHANGED <<plot, clock, n_events, file_input, dataset_selector>>
        /\ explorer_unchanged

local_file_changed_work ==
    /\ tick_callbacks # <<>>
    /\ Head(tick_callbacks).kind = "local_file_changed"
    /\ load_work(BytesIOKey(Len(heap) + 1), Head(tick_callbacks).source)

load_remote_file_work ==
    /\ tick_callbacks # <<>>
    /\ Head(tick_callbacks).kind = "load_remote_file"
    /\ load_work(UrlKey(Head(tick_callbacks).source), Head(tick_callbacks).source)

\* The work() closure of busy around plot_per_month.
plot_per_month_work ==
    /\ tick_callbacks # <<>>
    /\ Head(tick_callbacks).kind = "plot_per_month"
    /\ plot' = per_month_figure(heap[Head(tick_callbacks).metadata])
    /\ loading' = NoText
    /\ tick_callbacks' = Tail(tick_callbacks)
    /\ failed' = FALSE
    /\ UNCHANGED <<heap, cache, summary, column_selector, clock, n_events,
                   file_input, dataset_selector, fetched, last_call, last_load>>
    /\ explorer_unchanged

\* The work() closure of busy around plot_stacked_per_month: an exception
\* leaves work() before set_loading_text("").
plot_stacked_per_month_work ==
    /\ tick_callbacks # <<>>
    /\ Head(tick_callbacks).kind = "plot_stacked_per_month"
    /\ LET job == Head(tick_callbacks)
       IN  \E top \in top_column_values_of(heap[job.metadata], job.column) :
              LET r == stacked_figure(heap[job.metadata], job.column, top)
              IN  /\ heap' = [heap EXCEPT ![job.metadata] = r.metadata]
                  /\ plot' = IF r.raised THEN plot ELSE r.figure
                  /\ loading' = IF r.raised THEN loading ELSE NoText
                  /\ failed' = r.raised
    /\ tick_callbacks' = Tail(tick_callbacks)
    /\ UNCHANGED <<cache, summary, column_selector, clock, n_events,
                   file_input, dataset_selector, fetched, last_call, last_load>>
    /\ explorer_unchanged

event_unchanged ==
    /\ failed' = FALSE
    /\ UNCHANGED <<heap, cache, summary, plot, clock, fetched, last_call, last_load>>

\* set_loading_text and add_next_tick_callback(work) of a load handler
schedule_load(text, kind, source) ==
    /\ n_events < MaxEvents
    /\ n_events' = n_events + 1
    /\ loading' = text
    /\ tick_callbacks' = Append(tick_callbacks, Job(kind, source, 0, ""))

local_file_changed ==
    \E file_contents \in Uploads :
        /\ file_contents # file_input
        /\ file_input' = file_contents
        /\ schedule_load(LoadingLocal, "local_file_changed", file_contents)
        /\ UNCHANGED <<dataset_selector, column_selector>>
        /\ event_unchanged
        /\ explorer_unchanged

load_remote_file(url) == schedule_load(LoadingUrl(url), "load_remote_file", url)

dropdown_url_changed ==
    \E url \in DropdownUrls \cup {DEFAULT_SELECTION} :
        /\ url # dataset_selector
        /\ dataset_selector' = url
        /\ IF url = DEFAULT_SELECTION
           THEN UNCHANGED <<loading, tick_callbacks, n_events>>
           ELSE load_remote_file(url)
        /\ UNCHANGED <<file_input, column_selector>>
        /\ event_unchanged
        /\ explorer_unchanged

custom_url_submitted ==
    \E url \in CustomUrls :
        /\ load_remote_file(url)
        /\ UNCHANGED <<file_input, dataset_selector, column_selector>>
        /\ event_unchanged
        /\ explorer_unchanged

\* column_selector_callback of initial_load, and the wrapper of busy around
\* plot_stacked_per_month.  The value a client sends is not checked against
\* the options.
column_selector_callback ==
    /\ ~ column_selector.disabled
    /\ n_events < MaxEvents
    /\ \E column \in OptionColumns(column_selector) \cup {UnknownColumn} :
         /\ column # column_selector.value
         /\ column_selector' = [column_selector EXCEPT !.value = column]
         /\ IF column = DEFAULT_SELECTION
            THEN UNCHANGED <<loading, tick_callbacks>>
            ELSE /\ loading' = Loading
                 /\ tick_callbacks' =
                        Append(tick_callbacks,
                               Job("plot_stacked_per_month", "",
                                   column_selector.metadata, column))
    /\ n_events' = n_events + 1
    /\ UNCHANGED <<file_input, dataset_selector>>
    /\ event_unchanged
    /\ explorer_unchanged

\* Time passes: a time to live (counted among the events).
TimePasses ==
    /\ n_events < MaxEvents
    /\ n_events' = n_events + 1
    /\ clock' = clock + ttl
    /\ failed' = FALSE
    /\ UNCHANGED <<tsv, file_input, dataset_selector, heap, summary, column_selector,
                   plot, loading, cache, tick_callbacks, fetched,
                   last_call, last_load, returned>>

Init ==
    /\ tsv = Unreadable
    /\ InitCommon

Next ==
    \/ local_file_changed
    \/ dropdown_url_changed
    \/ custom_url_submitted
    \/ column_selector_callback
    \/ local_file_changed_work
    \/ load_remote_file_work
    \/ plot_per_month_work
    \/ plot_stacked_per_month_work
    \/ TimePasses

Spec == Init /\ [][Next]_vars


---------------------------------------------------------------------------
(* Properties of bokeh-server.py's data path, checked under SpecServer. *)

\* The cells of a row that the input file gave it (date_month is appended)
Given(row) == SubSeq(row, 1, Len(tsv.frame.columns))

\* C2: validate_and_summarize returns a subset of the rows it was given
\* (no row more often than the input holds it), every returned row has a
\* date that parses, the summary counts the rows of the input, and the
\* dropped-rows warning is there exactly when total minus returned is
\* positive, naming that number.
C2_ValidateAndSummarize ==
    returned # NoFrame =>
        LET given == tsv.frame.rows
            kept == List([i \in 1 .. Len(returned.rows) |-> Given(returned.rows[i])])
            d == ColumnIndex(tsv.frame, "date")
            dropped == Len(given) - Len(kept)
        IN  /\ \A r \in Range(kept) : Count(kept, r) <= Count(given, r)
            /\ Len(kept) <= Len(given)
            /\ \A i \in 1 .. Len(kept) : to_datetime(kept[i][d]) # NaT
            /\ summary.n_rows = Len(given)
            /\ (summary.missing_dates_warning # <<>>) <=> (dropped > 0)
            /\ dropped > 0 => summary.missing_dates_warning = <<dropped>>

\* A load that dropped some rows and kept others.
C2_Witness ==
    /\ returned # NoFrame
    /\ Len(returned.rows) > 0
    /\ Len(returned.rows) < Len(tsv.frame.rows)
    /\ summary.missing_dates_warning # <<>>

\* The year and month of the dates of the rows of a month
YearMonth(metadata, month) ==
    LET d == ColumnIndex(metadata, "date")
        m == ColumnIndex(metadata, "date_month")
        i == CHOOSE i \in 1 .. Len(metadata.rows) : metadata.rows[i][m] = StrCell(month)
        dt == to_datetime(metadata.rows[i][d])
    IN  <<dt[1], dt[2]>>
Earlier(a, b) == a[1] < b[1] \/ (a[1] = b[1] /\ a[2] < b[2])

\* The x axis of a figure: each month of the rows once, earlier months
\* first, no month without a row.
MonthAxis(metadata, months) ==
    /\ Range(months) = {c[2] : c \in Range(Column(metadata, "date_month"))}
    /\ \A i, j \in 1 .. Len(months) :
          i < j => Earlier(YearMonth(metadata, months[i]), YearMonth(metadata, months[j]))

\* C3: the bar chart of plot_per_month has the distinct months of the rows
\* in strictly increasing chronological order on its axis, no month without
\* a row, and for each month the number of rows of that month.
C3_PlotPerMonth ==
    plot.kind = "bar" =>
        LET metadata == heap[1]
            months == plot.x_range
        IN  /\ MonthAxis(metadata, months)
            /\ Len(plot.top) = Len(months)
            /\ \A i \in 1 .. Len(months) :
                  plot.top[i] = Count(Column(metadata, "date_month"), StrCell(months[i]))

\* A bar chart of three months or more, with a month of several rows, over
\* rows that are not in chronological order.
C3_Witness ==
    /\ plot.kind = "bar"
    /\ Len(plot.x_range) >= 3
    /\ \E i \in 1 .. Len(plot.top) : plot.top[i] > 1
    /\ LET date == Column(heap[1], "date")
       IN  \E i \in 1 .. Len(date) - 1 : Before(to_datetime(date[i + 1]), to_datetime(date[i]))

Other == StrCell("other")

\* C4: after plot_stacked_per_month on a column, category_adj holds for each
\* row the row's value of the column or 'other'; at most CATEGORY_LIMIT
\* values are kept, each at least as frequent as every collapsed value; the
\* distinct labels are at most CATEGORY_LIMIT + 1, and they are the
\* stackers of the chart drawn from them.
C4_CategoryCollapsing ==
    column_selector.value # "" =>
        LET metadata == heap[1]
            col == Column(metadata, column_selector.value)
            adj == Column(metadata, "category_adj")
            rows == 1 .. Len(adj)
            kept == {col[i] : i \in {k \in rows : adj[k] = col[k]}} \ {Other}
            collapsed == {col[i] : i \in {k \in rows : adj[k] # col[k]}}
        IN  /\ \A i \in rows : adj[i] = col[i] \/ adj[i] = Other
            /\ kept \cap collapsed = {}
            /\ Cardinality(kept) <= CATEGORY_LIMIT
            /\ \A k \in kept : \A c \in collapsed : Count(col, k) >= Count(col, c)
            /\ Cardinality(Range(adj)) <= CATEGORY_LIMIT + 1
            /\ (plot.kind = "stack" /\ plot.column = column_selector.value) =>
                  {StrCell(l) : l \in Range(plot.stackers)} = Range(adj)

\* A column of more than CATEGORY_LIMIT values was stacked: CATEGORY_LIMIT
\* values are kept, the others are collapsed, and the chart is drawn.
C4_Witness ==
    /\ column_selector.value = "c"
    /\ plot.kind = "stack"
    /\ plot.column = "c"
    /\ LET col == Column(heap[1], "c")
           adj == Column(heap[1], "category_adj")
       IN  /\ \E i \in 1 .. Len(adj) : adj[i] = Other /\ col[i] # Other
           /\ Cardinality(Range(adj)) = CATEGORY_LIMIT + 1

\* C5: the data of the stacked chart holds, for every label of category_adj
\* (one series per distinct label), one count per month of the axis, in the
\* order of the axis: the number of rows of that label in that month, 0
\* where there is none.
C5_StackingMatrix ==
    (plot.kind = "stack" /\ plot.column = column_selector.value) =>
        LET metadata == heap[1]
            months == plot.x_range
            adj == Column(metadata, "category_adj")
            month == Column(metadata, "date_month")
            labels == plot.stackers
        IN  /\ MonthAxis(metadata, months)
            /\ {StrCell(l) : l \in Range(labels)} = Range(adj)
            /\ Cardinality(Range(labels)) = Len(labels)
            /\ Range(labels) \subseteq DOMAIN plot.data
            /\ \A l \in Range(labels) :
                  /\ Len(plot.data[l]) = Len(months)
                  /\ \A i \in 1 .. Len(months) :
                        plot.data[l][i] =
                            Cardinality({k \in 1 .. Len(adj) :
                                            adj[k] = StrCell(l) /\ month[k] = StrCell(months[i])})

\* A stacked chart of several labels and months in which a label has no
\* row in some month and several rows in another.
C5_Witness ==
    /\ plot.kind = "stack"
    /\ plot.column = column_selector.value
    /\ Len(plot.x_range) >= 3
    /\ \E l \in Range(plot.stackers) :
          /\ \E i \in 1 .. Len(plot.x_range) : plot.data[l][i] = 0
          /\ \E i \in 1 .. Len(plot.x_range) : plot.data[l][i] > 1


---------------------------------------------------------------------------
(* Properties of metadata-explorer.py, checked under Spec. *)

LoadJobs == {"local_file_changed", "load_remote_file"}
LoadingTexts == {"Loading local file...", "Loading {url}...", "Loading..."}
FailedText == "Failed to load: {e}"

\* This step runs the first callback of the queue.
RunsCallback ==
    /\ tick_callbacks # <<>>
    /\ tick_callbacks' # tick_callbacks
    /\ Len(tick_callbacks') <= Len(tick_callbacks)

\* The job is a load of a source that cannot be fetched or parsed, or whose
\* table has no date column.
FailingLoad(job) ==
    /\ job.kind \in LoadJobs
    /\ \/ ~ World(job.source).parses
       \/ ~ HasColumn(World(job.source).frame, "date")

\* C1: a second get_metadata call on the same URL within the time to live
\* of the first does not run the fetch and validation again and returns a
\* row set equal to the one the first call returned, whatever ran between.
C1_GetMetadataIdempotent ==
    (last_call.key = "str" /\ last_call.within) =>
        /\ ~ last_call.ran
        /\ last_call.result = last_call.first

\* C6: the work of a failing load ends with the 'Failed to load' text, keeps
\* the summary, the column selector, the plot and the cache as they were
\* and schedules nothing; the work of every other load, whatever failed
\* before it, ends with 'Successfully loaded.', the selector enabled on the
\* row set it loaded and the bar plot of that row set scheduled.
C6_FailedLoadChangesNothing ==
    [][RunsCallback /\ Head(tick_callbacks).kind \in LoadJobs =>
          IF FailingLoad(Head(tick_callbacks))
          THEN /\ loading'[1] = FailedText
               /\ tick_callbacks' = Tail(tick_callbacks)
               /\ UNCHANGED <<summary, column_selector, plot, cache>>
          ELSE /\ loading' = Loaded
               /\ ~ column_selector'.disabled
               /\ column_selector'.metadata \in 1 .. Len(heap')
               /\ tick_callbacks' =
                      Append(Tail(tick_callbacks),
                             Job("plot_per_month", "", column_selector'.metadata, ""))
      ]_vars

\* A load has just failed after another one had filled the summary, the
\* selector, the plot and the cache.
C6_Witness ==
    /\ failed
    /\ last_load.source # ""
    /\ ~ last_load.ok
    /\ loading[1] = FailedText
    /\ summary # NoSummary
    /\ ~ column_selector.disabled
    /\ plot.kind = "bar"
    /\ cache # <<>>

\* C7: an upload of bytes that were uploaded before, within the time to
\* live, is a cache hit: the fetch and validation do not run again.
C7_UploadOfSameBytesHits ==
    (last_call.key = "BytesIO" /\ last_call.within) => ~ last_call.ran

\* C8: while a load's work or the plot_per_month unit it schedules is
\* still in the queue, the loading text is a loading message.
C8_LoadingUntilPlotted ==
    (\E i \in 1 .. Len(tick_callbacks) :
        tick_callbacks[i].kind \in LoadJobs \cup {"plot_per_month"})
    => loading[1] \in LoadingTexts

\* C9: when an exception is raised in a deferred unit, the unit ends with
\* the 'Failed to load' text.
C9_FailureIsVisible == failed => loading[1] = FailedText

\* C10: when no callback is pending and the last load succeeded, the
\* summary, the selector's options and the plot describe the row set that
\* load returned.
C10_WidgetsDescribeLastLoad ==
    (tick_callbacks = <<>> /\ last_load.ok) =>
        LET metadata == heap[column_selector.metadata]
            file == World(last_load.source).frame
            dropped == Len(file.rows) - Len(metadata.rows)
        IN  /\ summary.n_rows = Len(file.rows)
            /\ summary.missing_dates_warning = IF dropped > 0 THEN <<dropped>> ELSE <<>>
            /\ OptionColumns(column_selector) \ {DEFAULT_SELECTION}
                   \subseteq Range(metadata.columns)
            /\ plot.kind \in {"bar", "stack"}
            /\ MonthAxis(metadata, plot.x_range)
            /\ plot.kind = "bar" =>
                  \A i \in 1 .. Len(plot.x_range) :
                      plot.top[i] = Count(Column(metadata, "date_month"),
                                          StrCell(plot.x_range[i]))
            /\ plot.kind = "stack" =>
                  {StrCell(l) : l \in Range(plot.stackers)}
                      = Range(Column(metadata, "category_adj"))

===========================================================================
